---- MODULE Spec2Model ----
(***************************************************************************)
(* A model of the variant-annotation pipeline:                             *)
(*   clinvar_lookup.py  ClinVarLookup (cache file, rate limiter, query)    *)
(*   analyze_vcf.py     parse_vcf, compute_statistics, convert_to_spdi,    *)
(*                      main                                               *)
(* Time is counted in ticks, TicksPerUnit ticks to the second.  Allele     *)
(* frequencies are counted in hundredths.  Strings are TLA+ strings; a     *)
(* chromosome label is a sequence of one-character strings so that the     *)
(* 'chr' removal can be computed.                                          *)
(***************************************************************************)
EXTENDS Integers, Sequences, FiniteSets, TLC

VARIABLES
    storage,         \* the cache file (clinvar_cache.json)
    cache,           \* ClinVarLookup.cache
    last_call_time,  \* ClinVarLookup.last_call_time, in ticks
    now,             \* time.time(), in ticks
    pc,              \* where the process is
    runs,            \* processes started so far
    last,            \* what the latest get_clinical_significance call did
    queryLog,        \* the remote queries of this process, oldest first
    source,          \* main: the list parse_vcf returned, head + repeated filler
    idx,             \* main: variants of variants[:300] handled so far
    significance,    \* main: variant['clinvar_significance'], by position
    listing,         \* main: what went to variants.json
    stats,           \* main / compute_statistics: the statistics object
    translated,      \* main: positions convert_to_spdi was called for
    input,           \* the argument of the pure function under check
    output           \* its result

clientVars == <<storage, cache, last_call_time, now, pc, runs, last, queryLog>>
clientData == <<storage, cache, last_call_time, now, runs, last, queryLog>>
mainVars   == <<source, idx, significance, listing, stats, translated>>
pureVars   == <<input, output>>
vars == <<storage, cache, last_call_time, now, pc, runs, last, queryLog,
          source, idx, significance, listing, stats, translated, input, output>>

----------------------------------------------------------------------------
(* Bounds of the model *)

TicksPerUnit == 2      \* clock resolution: ticks per second
MaxTime == 7           \* the clock of the client specification stops here
MaxOversleep == 1      \* ticks time.sleep may take beyond what was asked
MaxQueries == 2        \* remote queries per process in the client specification
MaxRuns == 2           \* processes started in the client specification
MaxHead == 2           \* main: variants before the repeated one
MaxTransient == 1      \* main: sentinel answers of the remote service in a run

\* clinvar_lookup.py:55  "if now - self.last_call_time < 1"
MinInterval == 1 * TicksPerUnit

----------------------------------------------------------------------------
(* JSON values: what the cache file can hold and what self.cache can be *)

NoEntries == {}
NoStats == <<>>

JsonDict(entries) == [kind |-> "dict", entries |-> entries, items |-> {}]
JsonList(items)   == [kind |-> "list", entries |-> NoEntries, items |-> items]
JsonScalar        == [kind |-> "scalar", entries |-> NoEntries, items |-> {}]
\* file states that are not a JSON document
FileAbsent        == [kind |-> "absent", entries |-> NoEntries, items |-> {}]
FileMalformed     == [kind |-> "malformed", entries |-> NoEntries, items |-> {}]
FileUnreadable    == [kind |-> "unreadable", entries |-> NoEntries, items |-> {}]

\* "spdi in self.cache" for a dict
HasKey(entries, spdi) == \E e \in entries : e[1] = spdi
\* "self.cache[spdi]" for a dict that has the key
Get(entries, spdi) == (CHOOSE e \in entries : e[1] = spdi)[2]
\* "self.cache[spdi] = label" for a dict
Put(entries, spdi, label) ==
    {e \in entries : e[1] # spdi} \cup {<<spdi, label>>}

\* json.load of the file's text (clinvar_lookup.py:28-29): the value the text
\* denotes.  Keys and labels are strings, which JSON writes and reads back
\* unchanged.
JsonLoad(file) == [kind |-> file.kind, entries |-> file.entries, items |-> file.items]
\* json.dump of a value, the text the file then holds
JsonDump(value) == [kind |-> value.kind, entries |-> value.entries, items |-> value.items]

----------------------------------------------------------------------------
(* ClinVarLookup *)

\* _load_cache: FileNotFoundError and JSONDecodeError give {}; any other
\* exception of open() or read() propagates; a document that parses is
\* returned whatever its type.
_load_cache(file) ==
    CASE file.kind \in {"absent", "malformed"} ->
            [raised |-> FALSE, value |-> JsonDict(NoEntries)]
      [] file.kind = "unreadable" ->
            [raised |-> TRUE, value |-> JsonDict(NoEntries)]
      [] OTHER ->
            [raised |-> FALSE, value |-> JsonLoad(file)]

\* _save_cache: open(cache_file, 'w') empties the file, json.dump and the
\* close fill it.  FileDuringSave is the file between the two.
FileDuringSave == FileMalformed
_save_cache(value) == JsonDump(value)

\* CacheCheck without the test of line 50
CacheCheckNever(c, spdi) == IF c.kind = "dict" \/ c.kind = "list" THEN "miss" ELSE "raise"
\* Lines 50-51: "if spdi in self.cache: return self.cache[spdi]".
\*   dict:   a key test, then the entry
\*   list:   a membership test; when it succeeds the subscript raises TypeError
\*   scalar: the membership test raises TypeError
\* Neither exception is inside the try of line 60.
CacheCheck(c, spdi) ==
    CASE c.kind = "dict" -> IF HasKey(c.entries, spdi) THEN "hit" ELSE "miss"
      [] c.kind = "list" -> IF spdi \in c.items THEN "raise" ELSE "miss"
      [] OTHER -> "raise"

\* RateLimitDelay without the sleep of line 56
RateLimitDelayNone(t, lct) == 0
\* Lines 54-56: the time to sleep before the query.
RateLimitDelay(t, lct) ==
    IF t - lct < MinInterval THEN MinInterval - (t - lct) ELSE 0

\* What requests.get can do (line 62): raise, or answer with a status and a
\* body that is a JSON object with or without the description, or a body
\* response.json() or the .get() calls raise on ("garbage": no JSON, or JSON
\* that is not an object).
NoField == "<no description>"
Response(raised, status, body, description) ==
    [raised |-> raised, status |-> status, body |-> body, description |-> description]
Responses ==
    { Response(FALSE, 200, "object", "Pathogenic"),
      Response(FALSE, 200, "object", NoField),
      Response(FALSE, 200, "garbage", NoField),
      Response(FALSE, 404, "garbage", NoField),
      Response(FALSE, 500, "garbage", NoField),
      Response(TRUE, 0, "garbage", NoField) }

\* The failures the cache must not remember
IsTransient(resp) ==
    \/ resp.raised
    \/ resp.status \notin {200, 404}
    \/ resp.status = 200 /\ resp.body # "object"

\* Lines 73-74 and 79-80: "self.cache[spdi] = label; self._save_cache()".
\* On a list the assignment raises TypeError, which line 88 catches.
\* StoreResult without the assignment and the save
StoreResultForgets(c, spdi, label) ==
    IF c.kind = "dict"
    THEN [ret |-> label, cache |-> c, saved |-> FALSE]
    ELSE [ret |-> "Error", cache |-> c, saved |-> FALSE]
StoreResult(c, spdi, label) ==
    IF c.kind = "dict"
    THEN [ret |-> label, cache |-> JsonDict(Put(c.entries, spdi, label)), saved |-> TRUE]
    ELSE [ret |-> "Error", cache |-> c, saved |-> FALSE]

\* QueryResult with the failures stored like the answers
QueryResultCachingAll(c, spdi, resp) ==
    IF resp.raised THEN StoreResult(c, spdi, "Error")
    ELSE IF resp.status = 200 /\ resp.body = "object"
         THEN StoreResult(c, spdi, IF resp.description = NoField THEN "Unknown"
                                   ELSE resp.description)
    ELSE IF resp.status = 200 THEN StoreResult(c, spdi, "Error")
    ELSE IF resp.status = 404 THEN StoreResult(c, spdi, "Not found in ClinVar")
    ELSE StoreResult(c, spdi, "API Error")
\* Lines 60-90: the query and the classification of its answer.
QueryResult(c, spdi, resp) ==
    IF resp.raised
    THEN [ret |-> "Error", cache |-> c, saved |-> FALSE]
    ELSE IF resp.status = 200
         THEN IF resp.body # "object"
              THEN [ret |-> "Error", cache |-> c, saved |-> FALSE]
              ELSE StoreResult(c, spdi, IF resp.description = NoField THEN "Unknown"
                                        ELSE resp.description)
    ELSE IF resp.status = 404
         THEN StoreResult(c, spdi, "Not found in ClinVar")
    ELSE [ret |-> "API Error", cache |-> c, saved |-> FALSE]

NoCall ==
    [result |-> "none", id |-> "", ret |-> "", slept |-> 0,
     response |-> Response(FALSE, 0, "garbage", NoField),
     cacheBefore |-> JsonScalar, storageBefore |-> FileAbsent, saving |-> FileAbsent]
Call(result, spdi, ret, slept, resp, saving) ==
    [result |-> result, id |-> spdi, ret |-> ret, slept |-> slept, response |-> resp,
     cacheBefore |-> cache, storageBefore |-> storage, saving |-> saving]

\* __init__ (lines 21-23)
Construct ==
    /\ pc = "new"
    /\ LET loaded == _load_cache(storage) IN
        IF loaded.raised
        THEN /\ pc' = "aborted"
             /\ UNCHANGED <<cache, last_call_time>>
        ELSE /\ pc' = "ready"
             /\ cache' = loaded.value
             /\ last_call_time' = 0
    /\ last' = NoCall
    /\ queryLog' = <<>>
    /\ UNCHANGED <<storage, now, runs>>

\* get_clinical_significance, the cache answers (lines 50-51)
ResolveHit(spdi) ==
    /\ pc = "ready"
    /\ CacheCheck(cache, spdi) = "hit"
    /\ last' = Call("hit", spdi, Get(cache.entries, spdi), 0, NoCall.response, storage)
    /\ UNCHANGED <<storage, cache, last_call_time, now, pc, runs, queryLog>>

\* get_clinical_significance, line 50 or 51 raises TypeError
ResolveRaise(spdi) ==
    /\ pc = "ready"
    /\ CacheCheck(cache, spdi) = "raise"
    /\ pc' = "aborted"
    /\ last' = Call("raise", spdi, "", 0, NoCall.response, storage)
    /\ UNCHANGED <<storage, cache, last_call_time, now, runs, queryLog>>

\* get_clinical_significance, a miss (lines 54-90).  t is the time line 57
\* reads after the sleep; resp is what the remote service does.
ResolveMiss(spdi, t, resp) ==
    /\ pc = "ready"
    /\ CacheCheck(cache, spdi) = "miss"
    /\ LET delay == RateLimitDelay(now, last_call_time)
           q == QueryResult(cache, spdi, resp)
       IN /\ t >= now + delay
          /\ last_call_time' = t
          /\ now' = t
          /\ cache' = q.cache
          /\ storage' = IF q.saved THEN _save_cache(q.cache) ELSE storage
          /\ queryLog' = Append(queryLog, [id |-> spdi, time |-> t, ret |-> q.ret,
                                           slept |-> delay])
          /\ last' = Call("miss", spdi, q.ret, delay, resp,
                          IF q.saved THEN _save_cache(q.cache) ELSE storage)
    /\ UNCHANGED <<pc, runs>>

\* get_clinical_significance, the process stops inside _save_cache, after
\* line 37 opened the file for writing and before line 38 has written it out
ResolveStopInSave(spdi, t, resp) ==
    /\ pc = "ready"
    /\ CacheCheck(cache, spdi) = "miss"
    /\ LET delay == RateLimitDelay(now, last_call_time)
           q == QueryResult(cache, spdi, resp)
       IN /\ t >= now + delay
          /\ q.saved
          /\ last_call_time' = t
          /\ now' = t
          /\ cache' = q.cache
          /\ storage' = FileDuringSave
          /\ queryLog' = Append(queryLog, [id |-> spdi, time |-> t, ret |-> q.ret,
                                           slept |-> delay])
          /\ last' = Call("stopped", spdi, q.ret, delay, resp, _save_cache(q.cache))
    /\ pc' = "stopped"
    /\ UNCHANGED runs

\* __exit__ (line 98)
Close ==
    /\ pc = "ready"
    /\ storage' = _save_cache(cache)
    /\ pc' = "closed"
    /\ last' = NoCall
    /\ UNCHANGED <<cache, last_call_time, now, runs, queryLog>>

----------------------------------------------------------------------------
(* convert_to_spdi *)

\* A Python value that is None or a str
PyNone == [isNone |-> TRUE, text |-> ""]
PyStr(s) == [isNone |-> FALSE, text |-> s]
\* "if spdi:", "if not seq_id"
Truthy(v) == ~v.isNone /\ v.text # ""

\* The characters of a label, joined into one string
RECURSIVE Join(_)
Join(chars) == IF chars = <<>> THEN "" ELSE Head(chars) \o Join(Tail(chars))

\* Line 184-210: the GRCh38 chromosome to RefSeq table
mapping ==
    [c \in {"1", "2", "3", "4", "5", "6", "7", "8", "9", "10", "11", "12", "13",
            "14", "15", "16", "17", "18", "19", "20", "21", "22", "X", "Y", "MT"} |->
        CASE c = "1" -> "NC_000001.11" [] c = "2" -> "NC_000002.12"
          [] c = "3" -> "NC_000003.12" [] c = "4" -> "NC_000004.12"
          [] c = "5" -> "NC_000005.10" [] c = "6" -> "NC_000006.12"
          [] c = "7" -> "NC_000007.14" [] c = "8" -> "NC_000008.11"
          [] c = "9" -> "NC_000009.12" [] c = "10" -> "NC_000010.11"
          [] c = "11" -> "NC_000011.10" [] c = "12" -> "NC_000012.12"
          [] c = "13" -> "NC_000013.11" [] c = "14" -> "NC_000014.9"
          [] c = "15" -> "NC_000015.10" [] c = "16" -> "NC_000016.10"
          [] c = "17" -> "NC_000017.11" [] c = "18" -> "NC_000018.10"
          [] c = "19" -> "NC_000019.10" [] c = "20" -> "NC_000020.11"
          [] c = "21" -> "NC_000021.9" [] c = "22" -> "NC_000022.11"
          [] c = "X" -> "NC_000023.11" [] c = "Y" -> "NC_000024.10"
          [] c = "MT" -> "NC_012920.1"]

ChrToken == <<"c", "h", "r">>

\* Line 213: chrom.replace('chr', ''): every occurrence of 'chr', found left
\* to right without overlap, is removed
RECURSIVE ReplaceChr(_)
ReplaceChr(chars) ==
    IF Len(chars) < Len(ChrToken) THEN chars
    ELSE IF SubSeq(chars, 1, Len(ChrToken)) = ChrToken
         THEN ReplaceChr(SubSeq(chars, Len(ChrToken) + 1, Len(chars)))
         ELSE <<Head(chars)>> \o ReplaceChr(Tail(chars))

\* Lines 213-224
convert_to_spdi(chrom, pos, ref, alt) ==
    LET clean_chrom == Join(ReplaceChr(chrom))
        seq_id == IF clean_chrom \in DOMAIN mapping THEN PyStr(mapping[clean_chrom])
                  ELSE PyNone
    IN IF ~Truthy(seq_id) THEN PyNone
       ELSE PyStr(seq_id.text \o ":" \o ToString(pos - 1) \o ":" \o ref \o ":" \o alt)

\* The identifiers the client specification resolves
Identifiers ==
    { convert_to_spdi(<<"c", "h", "r", "1", "7">>, 43093268, "G", "A").text,
      convert_to_spdi(<<"1">>, 100, "A", "T").text }

----------------------------------------------------------------------------
(* The client specification: one cache file, processes that construct a
   ClinVarLookup over it, resolve identifiers, and close or stop *)

Tick ==
    /\ pc = "ready"
    /\ now < MaxTime
    /\ now' = now + 1
    /\ last' = NoCall
    /\ UNCHANGED <<storage, cache, last_call_time, pc, runs, queryLog>>

\* The process is stopped between two calls
Stop ==
    /\ pc = "ready"
    /\ pc' = "stopped"
    /\ last' = NoCall
    /\ UNCHANGED <<storage, cache, last_call_time, now, runs, queryLog>>

\* A new process over the same cache file
Start ==
    /\ pc \in {"stopped", "closed", "aborted"}
    /\ runs < MaxRuns
    /\ runs' = runs + 1
    /\ pc' = "new"
    /\ last' = NoCall
    /\ UNCHANGED <<storage, cache, last_call_time, now, queryLog>>

InitialFiles ==
    { FileAbsent, FileMalformed, FileUnreadable, JsonScalar,
      JsonList({}), JsonList(Identifiers),
      JsonDict(NoEntries) }
    \cup { JsonDict({<<id, "Benign">>}) : id \in Identifiers }

MainIdle ==
    /\ source = <<>>
    /\ idx = 0
    /\ significance = <<>>
    /\ listing = <<>>
    /\ stats = NoStats
    /\ translated = {}
PureIdle ==
    /\ input = <<>>
    /\ output = <<>>

Init ==
    /\ storage \in InitialFiles
    /\ cache = JsonDict(NoEntries)
    /\ last_call_time = 0
    \* time.time() counts the seconds since 1970: never less than one
    /\ now \in {MinInterval, MinInterval + 1}
    /\ pc = "new"
    /\ runs = 1
    /\ last = NoCall
    /\ queryLog = <<>>
    /\ MainIdle
    /\ PureIdle

\* The times the clock can show when the sleep of line 56 is over
SleepEnds ==
    LET wake == now + RateLimitDelay(now, last_call_time)
    IN {t \in wake..(wake + MaxOversleep) : t <= MaxTime}

Next ==
    \/ Construct /\ UNCHANGED <<mainVars, pureVars>>
    \/ \E spdi \in Identifiers : ResolveHit(spdi) /\ UNCHANGED <<mainVars, pureVars>>
    \/ \E spdi \in Identifiers : ResolveRaise(spdi) /\ UNCHANGED <<mainVars, pureVars>>
    \/ \E spdi \in Identifiers, t \in SleepEnds, resp \in Responses :
          /\ Len(queryLog) < MaxQueries
          /\ ResolveMiss(spdi, t, resp)
          /\ UNCHANGED <<mainVars, pureVars>>
    \/ \E spdi \in Identifiers, t \in SleepEnds, resp \in Responses :
          /\ Len(queryLog) < MaxQueries
          /\ ResolveStopInSave(spdi, t, resp)
          /\ UNCHANGED <<mainVars, pureVars>>
    \/ Close /\ UNCHANGED <<mainVars, pureVars>>
    \/ Tick /\ UNCHANGED <<mainVars, pureVars>>
    \/ Stop /\ UNCHANGED <<mainVars, pureVars>>
    \/ Start /\ UNCHANGED <<mainVars, pureVars>>

Spec == Init /\ [][Next]_vars

----------------------------------------------------------------------------
(* Claims about ClinVarLookup, checked under Spec *)

\* C1: a resolve of an uncached identifier whose query fails transiently
\* (a status other than 200 and 404, an exception of the request, a body
\* that cannot be read) leaves the cache and the cache file as they were,
\* returns "API Error" for the status and "Error" otherwise, does not abort
\* the run, and leaves the identifier a cache miss.
C1_TransientFailureNotCached ==
    (last.result = "miss" /\ IsTransient(last.response)) =>
        /\ cache = last.cacheBefore
        /\ storage = last.storageBefore
        /\ last.ret = IF ~last.response.raised /\ last.response.status # 200
                      THEN "API Error" ELSE "Error"
        /\ pc = "ready"
        /\ CacheCheck(cache, last.id) = "miss"

C1_Witness ==
    /\ last.result = "miss"
    /\ last.response.status = 500
    /\ last.ret = "API Error"
    /\ cache.kind = "dict"
    /\ cache.entries # {}
    /\ Len(queryLog) = 2
    /\ queryLog[1].id = last.id
    /\ queryLog[1].ret = "Error"

\* C2: once (id, label) is in the cache, every later resolve(id) of the same
\* client returns label, issues no remote query, neither waits nor touches
\* last_call_time, and changes neither the cache nor the file; and the entry
\* stays while the client lives.
C2_CachedEntryAnswers ==
    [][ /\ \A id \in Identifiers :
            ( /\ pc = "ready"
              /\ cache.kind = "dict"
              /\ HasKey(cache.entries, id)
              /\ last'.result # "none"
              /\ last'.id = id )
            => /\ last'.result = "hit"
               /\ last'.ret = Get(cache.entries, id)
               /\ queryLog' = queryLog
               /\ last_call_time' = last_call_time
               /\ now' = now
               /\ cache' = cache
               /\ storage' = storage
               /\ pc' = "ready"
        /\ (pc = "ready" /\ pc' = "ready" /\ cache.kind = "dict")
            => (cache'.kind = "dict" /\ cache.entries \subseteq cache'.entries)
      ]_vars

C2_Witness ==
    /\ last.result = "hit"
    /\ Len(queryLog) = 1
    /\ queryLog[1].id = last.id
    /\ last.ret = "Not found in ClinVar"

\* C3: two consecutive remote queries of one client are at least the minimum
\* interval apart, whatever the earlier one's outcome, and the first remote
\* query of a run is not delayed.
C3_QueriesSpaced ==
    \A k \in 1..Len(queryLog) :
        /\ (k = 1) => queryLog[k].slept = 0
        /\ (k > 1) => queryLog[k].time - queryLog[k - 1].time >= MinInterval

C3_Witness ==
    /\ Len(queryLog) >= 2
    /\ queryLog[2].slept > 0
    /\ queryLog[1].ret = "API Error"
    /\ queryLog[2].time - queryLog[1].time = MinInterval

\* C6: after a store the file holds the whole mapping, equal to the cache;
\* and wherever the process stops, also inside a store, the file holds the
\* mapping of before the store or the mapping of after it.
C6_StoreIsAtomic ==
    (last.result \in {"miss", "stopped"}
        /\ QueryResult(last.cacheBefore, last.id, last.response).saved)
    => /\ storage \in {last.storageBefore, last.saving}
       /\ (last.result = "miss" => storage = JsonDump(cache))

\* C7: constructing the client never fails because of the cache file; with
\* the file absent, unreadable, malformed or not a mapping the client starts
\* with an empty mapping.
C7_ConstructionTolerant ==
    /\ ~(pc = "aborted" /\ last.result = "none")
    /\ (pc = "ready" /\ queryLog = <<>> /\ storage.kind # "dict")
        => cache = JsonDict(NoEntries)

----------------------------------------------------------------------------
(* The specification of convert_to_spdi: one call on an argument drawn
   from labels over a few characters *)

MaxChromLen == 5       \* characters of a chromosome label

ChromChars == {"c", "h", "r", "1", "7"}
RECURSIVE LabelsUpTo(_)
LabelsUpTo(n) ==
    IF n = 0 THEN {<<>>}
    ELSE LET shorter == LabelsUpTo(n - 1)
         IN shorter \cup {<<c>> \o l : c \in ChromChars, l \in {x \in shorter : Len(x) = n - 1}}
Chroms ==
    LabelsUpTo(MaxChromLen)
        \cup { <<"2", "6">>, <<"X">>, <<"M", "T">>, <<"c", "h", "r", "M", "T">>, <<"M">> }

ClientIdle ==
    /\ storage = FileAbsent
    /\ cache = JsonDict(NoEntries)
    /\ last_call_time = 0
    /\ now = 0
    /\ runs = 0
    /\ last = NoCall
    /\ queryLog = <<>>

InitSpdi ==
    /\ input \in [chrom : Chroms, pos : {100, 43093268}, ref : {"G", "A"}, alt : {"A", "T"}]
    /\ output = PyNone
    /\ pc = "call"
    /\ ClientIdle
    /\ MainIdle

CallConvert ==
    /\ pc = "call"
    /\ output' = convert_to_spdi(input.chrom, input.pos, input.ref, input.alt)
    /\ pc' = "returned"
    /\ UNCHANGED <<clientData, mainVars, input>>

NextSpdi == CallConvert

SpecSpdi == InitSpdi /\ [][NextSpdi]_vars

\* What the claim describes: only a leading 'chr' is stripped
StripLeadingChr(chars) ==
    IF Len(chars) >= Len(ChrToken) /\ SubSeq(chars, 1, Len(ChrToken)) = ChrToken
    THEN SubSeq(chars, Len(ChrToken) + 1, Len(chars))
    ELSE chars

\* C8: convert_to_spdi strips only a leading "chr"; a stripped label of the
\* table gives "{accession}:{pos-1}:{ref}:{alt}", any other label (such as
\* one with "chr" elsewhere than at the start) gives the failure sentinel,
\* which no successful output equals.
C8_LeadingPrefixOnly ==
    pc = "returned" =>
        LET label == Join(StripLeadingChr(input.chrom))
        IN IF label \in DOMAIN mapping
           THEN output = PyStr(mapping[label] \o ":" \o ToString(input.pos - 1) \o ":"
                               \o input.ref \o ":" \o input.alt)
           ELSE output = PyNone

----------------------------------------------------------------------------
(* compute_statistics.  An allele frequency is an integer number of
   hundredths, so "af <= 1.0" reads "af <= AfOne" and "af * 10" is af / 10. *)

AfOne == 100           \* the frequency 1.0, in hundredths
AfTenth == 10          \* the frequency 0.1, in hundredths

Abs(n) == IF n < 0 THEN -n ELSE n
Min(a, b) == IF a < b THEN a ELSE b

\* int(x) of Python, for x = num / den with den > 0: rounds toward zero
IntOfQuotient(num, den) == IF num >= 0 THEN num \div den ELSE -((-num) \div den)

\* f"{n/10:.1f}" for an integer n
FormatTenths(n) ==
    (IF n < 0 THEN "-" ELSE "") \o ToString(Abs(n) \div 10) \o "." \o ToString(Abs(n) % 10)

\* Lines 90-92: the ten keys of af_hist
HistogramKeys ==
    {"0.0-0.1", "0.1-0.2", "0.2-0.3", "0.3-0.4", "0.4-0.5",
     "0.5-0.6", "0.6-0.7", "0.7-0.8", "0.8-0.9", "0.9-1.0"}
EmptyHistogram == [k \in HistogramKeys |-> 0]

\* The frequencies in [0,1]
AfAcceptedRange(af) == af >= 0 /\ af <= AfOne
\* Line 95: "if af <= 1.0:  # Ensure AF is valid"
AfAccepted(af) == af <= AfOne

\* Lines 96-97
BinKey(af) ==
    LET bin_idx == Min(IntOfQuotient(af, AfTenth), 9)
    IN FormatTenths(bin_idx) \o "-" \o FormatTenths(bin_idx + 1)

\* Lines 94-98.  The loop adds one to the bin of every accepted value, so a
\* bin ends with the number of accepted values that fall in it; and
\* "af_hist[bin_key] += 1" raises KeyError, which ends compute_statistics,
\* as soon as an accepted value has a key that af_hist lacks.
Histogram(af_values) ==
    LET accepted == {j \in 1..Len(af_values) : AfAccepted(af_values[j])}
    IN [raised |-> \E j \in accepted : BinKey(af_values[j]) \notin HistogramKeys,
        hist |-> [key \in HistogramKeys |->
                    EmptyHistogram[key]
                      + Cardinality({j \in accepted : BinKey(af_values[j]) = key})]]

\* Line 68
IsSnp(v) == Len(v.ref) = 1 /\ Len(v.alt) = 1

\* Lines 78-79 over the whole loop: chrom_counts is an insertion-ordered
\* dict, kept as the sequence of <<chrom, count>> in order of first occurrence
ChromCounts(variants) ==
    LET n == Len(variants)
        chroms == {variants[j].chrom : j \in 1..n}
        First(c) == CHOOSE j \in 1..n :
                        variants[j].chrom = c /\ \A i \in 1..(j - 1) : variants[i].chrom # c
        Rank(c) == Cardinality({d \in chroms : First(d) < First(c)}) + 1
    IN [r \in 1..Cardinality(chroms) |->
            LET c == CHOOSE d \in chroms : Rank(d) = r
            IN <<c, Cardinality({j \in 1..n : variants[j].chrom = c})>>]

\* Lines 66-71 over the whole loop
Tally(variants) ==
    [snps |-> Cardinality({j \in 1..Len(variants) : IsSnp(variants[j])}),
     indels |-> Cardinality({j \in 1..Len(variants) : ~IsSnp(variants[j])}),
     chrom_counts |-> ChromCounts(variants)]

\* Line 87: max() keeps the first item among those with the largest count
MostCommon(chrom_counts) ==
    IF chrom_counts = <<>> THEN PyNone
    ELSE LET best == CHOOSE j \in 1..Len(chrom_counts) :
                        /\ \A i \in 1..Len(chrom_counts) :
                              chrom_counts[i][2] <= chrom_counts[j][2]
                        /\ \A i \in 1..(j - 1) : chrom_counts[i][2] < chrom_counts[j][2]
         IN PyStr(Join(chrom_counts[best][1]))

\* A percentage is kept as the fraction <<numerator, denominator>>
Percent(count, total) == IF total > 0 THEN <<count * 100, total>> ELSE <<0, 1>>

compute_statistics(variants) ==
    LET tally == Tally(variants)
        af_values == [j \in 1..Len(variants) |-> variants[j].af]
        dp_values == [j \in 1..Len(variants) |-> variants[j].dp]
        total == Len(variants)
        hist == Histogram(af_values)
    IN [raised |-> hist.raised,
        total_variants |-> total,
        snp_count |-> tally.snps,
        indel_count |-> tally.indels,
        snp_percentage |-> Percent(tally.snps, total),
        indel_percentage |-> Percent(tally.indels, total),
        most_common_chromosome |-> MostCommon(tally.chrom_counts),
        af_histogram |-> hist.hist,
        af_values |-> af_values,
        dp_values |-> dp_values,
        chromosome_counts |-> tally.chrom_counts]

----------------------------------------------------------------------------
(* The specification of compute_statistics: one call on a list of variants *)

MaxVariants == 3       \* variants in the argument of compute_statistics

AfValues == {0 - 25, 0 - 5, 0, 5, 95, 100, 105}
StatVariants ==
    [chrom : {<<"1">>}, pos : {100}, ref : {"A"}, alt : {"T"}, af : AfValues,
     dp : {10}, qual : {30}]
      \cup
    [chrom : {<<"c", "h", "r", "X">>}, pos : {7}, ref : {"AC"}, alt : {"A", ""},
     af : {5, 150}, dp : {12}, qual : {40}]

RECURSIVE SeqsUpTo(_, _)
SeqsUpTo(S, n) ==
    IF n = 0 THEN {<<>>}
    ELSE LET shorter == SeqsUpTo(S, n - 1)
         IN shorter \cup {Append(q, x) : q \in {y \in shorter : Len(y) = n - 1}, x \in S}

InitStats ==
    /\ input \in SeqsUpTo(StatVariants, MaxVariants)
    /\ output = NoStats
    /\ pc = "call"
    /\ ClientIdle
    /\ MainIdle

CallStatistics ==
    /\ pc = "call"
    /\ output' = compute_statistics(input)
    /\ pc' = IF output'.raised THEN "raised" ELSE "returned"
    /\ UNCHANGED <<clientData, mainVars, input>>

NextStats == CallStatistics

SpecStats == InitStats /\ [][NextStats]_vars

RECURSIVE SumOver(_, _)
SumOver(f, keys) ==
    IF keys = {} THEN 0
    ELSE LET k == CHOOSE x \in keys : TRUE IN f[k] + SumOver(f, keys \ {k})

\* C5: the histogram's counts sum to at most total_variants, and to exactly
\* total_variants iff every frequency lies in [0,1]; a frequency above 1 or
\* below 0 is left out of the histogram without an error and still counted
\* in the totals and the raw sequences.
C5_HistogramCountsValid ==
    pc # "call" =>
        /\ pc = "returned"
        /\ output.total_variants = Len(input)
        /\ output.snp_count + output.indel_count = Len(input)
        /\ Len(output.af_values) = Len(input)
        /\ LET sum == SumOver(output.af_histogram, HistogramKeys)
           IN /\ sum <= output.total_variants
              /\ (sum = output.total_variants)
                    <=> (\A j \in 1..Len(input) : AfAcceptedRange(input[j].af))
              /\ sum = Cardinality({j \in 1..Len(input) : AfAcceptedRange(input[j].af)})

----------------------------------------------------------------------------
(* parse_vcf.  A record of the VCF reader: qual is None or a number, info
   may or may not hold DP and AF, alts is a tuple of strings or None. *)

MinQual == 30          \* line 27: "qual < 30"
MinDepth == 10         \* line 27: "dp < 10"

PyNumber(n) == [isNone |-> FALSE, value |-> n]
NoNumber == [isNone |-> TRUE, value |-> 0]

\* Line 23
QualOf(record) == IF ~record.qual.isNone THEN record.qual.value ELSE 0
\* Line 24
DepthOf(record) == IF record.info.hasDP THEN record.info.DP ELSE 0
\* Keeps with "and" for the "or" of line 27
KeepsEither(qual, dp) == ~(qual < MinQual /\ dp < MinDepth)
\* Line 27: the record is kept when the test "qual < 30 or dp < 10" fails
Keeps(qual, dp) == ~(qual < MinQual \/ dp < MinDepth)
\* Line 31
AfOf(record) == IF record.info.hasAF THEN record.info.AF[1] ELSE 0
\* Lines 34-42
VariantOf(record) ==
    [chrom |-> record.chrom,
     pos |-> record.pos,
     ref |-> record.ref,
     alt |-> IF record.alts # <<>> THEN record.alts[1] ELSE "",
     af |-> AfOf(record),
     dp |-> DepthOf(record),
     qual |-> QualOf(record)]

\* Lines 21-43: one turn of the loop, on records[k]
ParseStep(variants, record) ==
    IF Keeps(QualOf(record), DepthOf(record))
    THEN Append(variants, VariantOf(record))
    ELSE variants

----------------------------------------------------------------------------
(* The specification of parse_vcf: the loop over a list of records *)

MaxRecords == 3        \* records in the file

RecordKinds ==
    [chrom : {<<"c", "h", "r", "1">>}, pos : {0}, ref : {"A"}, alts : {<<"T", "G">>},
     qual : {NoNumber, PyNumber(29), PyNumber(30)},
     info : [hasDP : {TRUE}, DP : {9, 10}, hasAF : {TRUE}, AF : {<<50, 25>>}]
              \cup {[hasDP |-> FALSE, DP |-> 0, hasAF |-> FALSE, AF |-> <<>>]}]
      \cup
    [chrom : {<<"X">>}, pos : {0}, ref : {"AC"}, alts : {<<>>},
     qual : {PyNumber(31)},
     info : {[hasDP |-> TRUE, DP |-> 11, hasAF |-> FALSE, AF |-> <<>>]}]

\* The records of a file, each with its line number as position
Numbered(kinds) == [j \in 1..Len(kinds) |-> [kinds[j] EXCEPT !.pos = j]]

InitParse ==
    /\ input \in {Numbered(kinds) : kinds \in SeqsUpTo(RecordKinds, MaxRecords)}
    /\ output = <<>>
    /\ idx = 0
    /\ pc = "parsing"
    /\ ClientIdle
    /\ source = <<>>
    /\ significance = <<>>
    /\ listing = <<>>
    /\ stats = <<>>
    /\ translated = {}

ParseRecord ==
    /\ pc = "parsing"
    /\ idx < Len(input)
    /\ idx' = idx + 1
    /\ output' = ParseStep(output, input[idx + 1])
    /\ UNCHANGED <<clientData, pc, input, source, significance, listing, stats, translated>>

ParseReturn ==
    /\ pc = "parsing"
    /\ idx = Len(input)
    /\ pc' = "returned"
    /\ UNCHANGED <<clientData, input, output, mainVars>>

NextParse == ParseRecord \/ ParseReturn

SpecParse == InitParse /\ [][NextParse]_vars

\* The record the claim retains: quality (0 when absent) >= 30 and depth
\* (0 when info has no DP) >= 10
Retained(record) ==
    /\ (IF record.qual.isNone THEN 0 ELSE record.qual.value) >= 30
    /\ (IF record.info.hasDP THEN record.info.DP ELSE 0) >= 10

\* C9: parse_vcf retains a record iff its quality (0 when absent) is >= 30
\* and its depth (0 without DP) is >= 10, and emits one Variant per retained
\* record, in source order, and nothing for the others; so every Variant has
\* quality >= 30 and depth >= 10.
C9_RetainedIffQualityAndDepth ==
    LET seen == SubSeq(input, 1, idx)
        kept == SelectSeq(seen, Retained)
    IN /\ Len(output) = Len(kept)
       /\ \A j \in 1..Len(output) :
            /\ output[j].pos = kept[j].pos
            /\ output[j].chrom = kept[j].chrom
            /\ output[j].qual >= 30
            /\ output[j].dp >= 10

C9_Witness ==
    /\ pc = "returned"
    /\ Len(input) = 3
    /\ Len(output) = 2
    /\ output[1].pos = 1
    /\ output[2].pos = 3
    /\ input[2].qual = PyNumber(30)
    /\ input[2].info.hasDP
    /\ input[1].qual = PyNumber(30)

----------------------------------------------------------------------------
(* main.  The list parse_vcf returned is kept as a head of variants
   followed by one variant repeated: source.count variants in all. *)

QueryLimit == 300      \* line 125: variants[:300], line 141: variants[300:]
ListLimit == 1000      \* line 146: variants[:1000]

VariantAt(src, j) == IF j <= Len(src.head) THEN src.head[j] ELSE src.filler
Variants(src) == [j \in 1..src.count |-> VariantAt(src, j)]

\* SliceLen of a slice one too long
SliceLenOneMore(count, n) == Min(count, n + 1)
\* len(variants[:n])
SliceLen(count, n) == Min(count, n)

\* Lines 127-128
SpdiOf(v) == convert_to_spdi(v.chrom, v.pos, v.ref, v.alt)

Sentinels == {"API Error", "Error"}

\* Line 124: "with ClinVarLookup() as lookup"
MainOpen ==
    /\ pc = "new"
    /\ Construct
    /\ UNCHANGED <<mainVars, pureVars>>

\* Lines 125-136, one variant of variants[:300] that does not translate
MainInvalid ==
    /\ pc = "ready"
    /\ idx < SliceLen(source.count, QueryLimit)
    /\ ~Truthy(SpdiOf(VariantAt(source, idx + 1)))
    /\ idx' = idx + 1
    /\ translated' = translated \cup {idx + 1}
    /\ significance' = Append(significance, "Invalid format")
    /\ UNCHANGED <<clientVars, source, listing, stats, pureVars>>

\* Lines 125-136, one variant of variants[:300] whose identifier is cached
MainCached ==
    /\ pc = "ready"
    /\ idx < SliceLen(source.count, QueryLimit)
    /\ LET spdi == SpdiOf(VariantAt(source, idx + 1)) IN
        /\ Truthy(spdi)
        /\ ResolveHit(spdi.text)
        /\ significance' = Append(significance, last'.ret)
    /\ idx' = idx + 1
    /\ translated' = translated \cup {idx + 1}
    /\ UNCHANGED <<source, listing, stats, pureVars>>

\* Lines 125-136, one variant of variants[:300] whose identifier is queried.
\* The sleep ends on time; the remote service answers with a sentinel label
\* at most MaxTransient times in a run.
MainQueried ==
    /\ pc = "ready"
    /\ idx < SliceLen(source.count, QueryLimit)
    /\ LET spdi == SpdiOf(VariantAt(source, idx + 1)) IN
        /\ Truthy(spdi)
        /\ \E resp \in Responses :
            /\ (QueryResult(cache, spdi.text, resp).ret \in Sentinels)
                => Cardinality({k \in 1..Len(queryLog) : queryLog[k].ret \in Sentinels})
                      < MaxTransient
            /\ ResolveMiss(spdi.text, now + RateLimitDelay(now, last_call_time), resp)
        /\ significance' = Append(significance, last'.ret)
    /\ idx' = idx + 1
    /\ translated' = translated \cup {idx + 1}
    /\ UNCHANGED <<source, listing, stats, pureVars>>

\* Lines 125-131, the cache test raises TypeError: __exit__ saves the cache
\* and main re-raises (lines 167-169)
MainRaised ==
    /\ pc = "ready"
    /\ idx < SliceLen(source.count, QueryLimit)
    /\ LET spdi == SpdiOf(VariantAt(source, idx + 1)) IN
        /\ Truthy(spdi)
        /\ CacheCheck(cache, spdi.text) = "raise"
        /\ last' = Call("raise", spdi.text, "", 0, NoCall.response, storage)
    /\ translated' = translated \cup {idx + 1}
    /\ storage' = _save_cache(cache)
    /\ pc' = "aborted"
    /\ UNCHANGED <<cache, last_call_time, now, runs, queryLog,
                   source, idx, significance, listing, stats, pureVars>>

\* Lines 139-158: __exit__ saves the cache, the rest is marked, the first
\* 1000 are written, the statistics of all are computed and written
MainFinish ==
    /\ pc = "ready"
    /\ idx = SliceLen(source.count, QueryLimit)
    /\ storage' = _save_cache(cache)
    /\ significance' =
          [j \in 1..source.count |->
              IF j <= SliceLen(source.count, QueryLimit) THEN significance[j]
              ELSE "Not queried"]
    /\ listing' =
          [j \in 1..SliceLen(source.count, ListLimit) |->
              [variant |-> VariantAt(source, j),
               clinvar_significance |-> significance'[j]]]
    /\ stats' = compute_statistics(Variants(source))
    /\ pc' = IF stats'.raised THEN "aborted" ELSE "done"
    /\ last' = NoCall
    /\ UNCHANGED <<cache, last_call_time, now, runs, queryLog,
                   source, idx, translated, pureVars>>

----------------------------------------------------------------------------
(* The specification of main: one run over a cache file and a list of
   retained variants *)

VariantA == [chrom |-> <<"c", "h", "r", "1", "7">>, pos |-> 43093268, ref |-> "G",
             alt |-> "A", af |-> 50, dp |-> 20, qual |-> 40]
\* the same variant under the other spelling of its chromosome
VariantA2 == [VariantA EXCEPT !.chrom = <<"1", "7">>]
\* a variant convert_to_spdi has no accession for
VariantU == [chrom |-> <<"2", "6">>, pos |-> 100, ref |-> "AC", alt |-> "T",
             af |-> 150, dp |-> 10, qual |-> 30]

SourceCounts ==
    (0..MaxHead) \cup {QueryLimit, QueryLimit + 1, ListLimit + 1}

Sources ==
    { [head |-> h, filler |-> f, count |-> n] :
        h \in SeqsUpTo({VariantA, VariantU}, MaxHead),
        f \in {VariantA2, VariantU},
        n \in SourceCounts }

MainFiles ==
    { FileAbsent, FileUnreadable, JsonScalar, JsonList({}),
      JsonDict({<<SpdiOf(VariantA).text, "Benign">>}) }

InitMain ==
    /\ source \in {src \in Sources : Len(src.head) = Min(src.count, MaxHead)}
    /\ storage \in MainFiles
    /\ cache = JsonDict(NoEntries)
    /\ last_call_time = 0
    /\ now = MinInterval
    /\ pc = "new"
    /\ runs = 1
    /\ last = NoCall
    /\ queryLog = <<>>
    /\ idx = 0
    /\ significance = <<>>
    /\ listing = <<>>
    /\ stats = NoStats
    /\ translated = {}
    /\ PureIdle

NextMain ==
    \/ MainOpen
    \/ MainInvalid
    \/ MainCached
    \/ MainQueried
    \/ MainRaised
    \/ MainFinish

SpecMain == InitMain /\ [][NextMain]_vars

----------------------------------------------------------------------------
(* Claims about main, checked under SpecMain *)

ResolveLabels ==
    {"Pathogenic", "Benign", "Unknown", "Not found in ClinVar", "API Error", "Error"}

\* C4: when main completes over K retained variants, exactly the variants
\* at positions 1..min(K,300) carry a label from translation and resolve (a
\* significance label, "Invalid format", "API Error" or "Error"), every later
\* variant carries "Not queried" and caused no translation and no query, the
\* listing is the first min(K,1000) variants in order with those labels, and
\* the statistics count all K.
C4_AnnotationCaps ==
    pc = "done" =>
        LET K == source.count
            first == IF K < 300 THEN K ELSE 300
            listed == IF K < 1000 THEN K ELSE 1000
        IN /\ Len(significance) = K
           /\ translated = 1..first
           /\ \A j \in 1..first :
                IF Truthy(SpdiOf(VariantAt(source, j)))
                THEN significance[j] \in ResolveLabels
                ELSE significance[j] = "Invalid format"
           /\ \A j \in (first + 1)..K : significance[j] = "Not queried"
           /\ Len(queryLog)
                <= Cardinality({j \in 1..first : Truthy(SpdiOf(VariantAt(source, j)))})
           /\ Len(listing) = listed
           /\ \A j \in 1..listed :
                /\ listing[j].variant = VariantAt(source, j)
                /\ listing[j].clinvar_significance = significance[j]
           /\ stats.total_variants = K

C4_Witness ==
    /\ pc = "done"
    /\ source.count = 1001
    /\ Len(listing) = 1000
    /\ significance[1] = "Invalid format"
    /\ significance[2] = "API Error"
    /\ significance[300] = "Pathogenic"
    /\ significance[301] = "Not queried"
    /\ listing[1000].clinvar_significance = "Not queried"
    /\ stats.total_variants = 1001

QueriesOf(id) == {k \in 1..Len(queryLog) : queryLog[k].id = id}

\* How many of the first n variants of src translate to id
Occurrences(src, n, id) ==
    LET inHead == IF n < Len(src.head) THEN n ELSE Len(src.head)
    IN Cardinality({j \in 1..inHead : SpdiOf(src.head[j]) = PyStr(id)})
         + (IF SpdiOf(src.filler) = PyStr(id) THEN n - inHead ELSE 0)

\* C10 as stated: within a run every identifier is queried at most once,
\* also when several of the first 300 variants translate to it.
C10_OneQueryPerIdentifier ==
    \A k \in 1..Len(queryLog) : Cardinality(QueriesOf(queryLog[k].id)) <= 1

\* C10 as amended: a resolve issues at most one query and never repeats it,
\* so a run issues at most one query per variant handled; an identifier is
\* queried again within the run only for a later variant that translates to
\* it and only after every earlier query for it returned "API Error" or
\* "Error".
C10_NoRetryPerVariant ==
    /\ \A k \in 1..Len(queryLog) :
          Cardinality(QueriesOf(queryLog[k].id))
            <= Occurrences(source, idx, queryLog[k].id)
    /\ \A k, m \in 1..Len(queryLog) :
          (k < m /\ queryLog[k].id = queryLog[m].id) => queryLog[k].ret \in Sentinels

C10_Witness ==
    /\ pc = "done"
    /\ Len(queryLog) = 2
    /\ queryLog[1].id = queryLog[2].id
    /\ queryLog[1].ret = "Error"
    /\ queryLog[2].ret = "Not found in ClinVar"
    /\ source.count = 300
    /\ significance[3] = "Not found in ClinVar"

====
